---- MODULE Spec2Model ----
(***************************************************************************)
(* The "call" command of the varlink command line tool                     *)
(* (src/tool/command-call.c): argument parsing, reading the parameters     *)
(* from standard input, connecting, issuing the call and the reply loop,   *)
(* and its completion helper; and the "help" command                       *)
(* (src/tool/command-help.c): resolving the interface, connecting and      *)
(* printing the interface description.                                     *)
(*                                                                         *)
(* Strings of the program (argv tokens, the stdin text, the read buffer)   *)
(* are sequences of one-character strings.  An optional value (a pointer   *)
(* that may be NULL) is a set: {} is NULL, {x} points to x.                *)
(***************************************************************************)
EXTENDS Integers, Sequences, FiniteSets, TLC

VARIABLES
    argv,          \* the command's arguments (argv[1..], without the command name)
    pc,            \* position of call_run
    arguments,     \* CallArguments *arguments (optional record)
    stdin,         \* the contents standard input may still deliver (one, once a read has seen it)
    delivered,     \* history: the bytes read() has handed to the program so far
    readFailed,    \* history: a read() ended the loop with an error instead of end-of-input
    buffer,        \* char *buffer: its bytes (Uninit where never written)
    buffer_size,   \* unsigned long buffer_size
    size,          \* unsigned long size
    parameters,    \* VarlinkObject *parameters (optional decoded object)
    connection,    \* the connection: "none", "open", "closed"
    request,       \* history: the call handed to varlink_connection_call (optional record)
    error,         \* long error, written by reply_callback through userdata
    replies,       \* history: the replies dispatched to reply_callback
    output,        \* what was printed, in order (stdout and stderr)
    event,         \* history: what ended cli_process_all_events
    connects,      \* history: number of cli_connect invocations
    calls,         \* history: number of varlink_connection_call invocations
    closes,        \* history: number of times the connection was closed
    ret,           \* the command's return value (meaningful when pc = "done")
    current,       \* call_complete: the word being completed
    address,       \* help_run: const char *address (optional)
    interface,     \* help_run: const char *interface (optional)
    resolves,      \* history: number of cli_resolve invocations
    cli_calls,     \* history: the calls help_interface handed to cli_call
    waited,        \* history: what cli_wait_reply handed to help_interface (optional)
    described      \* history: help_interface's return value (optional)

vars == <<argv, pc, arguments, stdin, delivered, readFailed, buffer, buffer_size,
          size, parameters, connection, request, error, replies, output, event,
          connects, calls, closes, ret, current, address, interface, resolves,
          cli_calls, waited, described>>

\* the variables of the completion helper and of the help command
helpVars == <<current, address, interface, resolves, cli_calls, waited, described>>

----------------------------------------------------------------------------
(* Bounds of the model *)

MaxArgs == 3
MaxReplies == 3
MaxShortRead == 2
MaxOver == 1

----------------------------------------------------------------------------
(* Constants of the program and of the library it drives *)

CLI_ERROR_PANIC == 1
CLI_ERROR_CANNOT_RESOLVE == 2
CLI_ERROR_MISSING_ARGUMENT == 5
CLI_ERROR_INVALID_ARGUMENT == 6
CLI_ERROR_INVALID_JSON == 7
CLI_ERROR_CANNOT_CONNECT == 8
CLI_ERROR_CANCELED == 10
CLI_ERROR_REMOTE_ERROR == 11
CLI_ERROR_CALL_FAILED == 12
CLI_ERROR_CONNECTION_CLOSED == 14

VARLINK_CALL_MORE == "VARLINK_CALL_MORE"
VARLINK_REPLY_CONTINUES == "VARLINK_REPLY_CONTINUES"

MinBufferSize == 1024

EXIT_SUCCESS == 0
EXIT_FAILURE == 1

NUL == "NUL"
Uninit == "Uninit"

None == {}
Some(x) == {x}
Get(o) == CHOOSE x \in o : TRUE

----------------------------------------------------------------------------
(* Strings *)

IsPrefix(p, s) == Len(p) <= Len(s) /\ SubSeq(s, 1, Len(p)) = p

\* strrchr: the last index of c in s, 0 when absent
LastIndexOf(s, c) ==
    LET I == {i \in 1..Len(s) : s[i] = c}
    IN  IF I = {} THEN 0 ELSE CHOOSE i \in I : \A j \in I : j <= i

\* the index of the first c in s, 0 when absent
FirstIndexOf(s, c) ==
    LET I == {i \in 1..Len(s) : s[i] = c}
    IN  IF I = {} THEN 0 ELSE CHOOSE i \in I : \A j \in I : i <= j

Repeat(c, n) == [i \in 1..n |-> c]

----------------------------------------------------------------------------
(* getopt_long(argc, argv, ":hm", options, NULL) *)

\* static const struct option options[]
options ==
    { [name |-> <<"h", "e", "l", "p">>, val |-> "h"],
      [name |-> <<"m", "o", "r", "e">>, val |-> "m"] }

\* the option characters of the optstring ":hm"
ShortOptions == {"h", "m"}

IsOptionToken(tok) == Len(tok) >= 2 /\ tok[1] = "-"
IsTerminator(tok) == tok = <<"-", "-">>

\* The codes a long option "--name" yields: the option whose name it abbreviates
\* without ambiguity, else '?'.
LongCode(tok) ==
    LET name == SubSeq(tok, 3, Len(tok))
        M    == {o \in options : IsPrefix(name, o.name)}
    IN  IF Cardinality(M) = 1 THEN <<(Get(M)).val>> ELSE <<"?">>

\* The codes a cluster of short options "-abc" yields, one per character.
ShortCodes(tok) ==
    [i \in 1..(Len(tok) - 1) |->
        IF tok[i + 1] \in ShortOptions THEN tok[i + 1] ELSE "?"]

RECURSIVE getopt_long(_, _)
\* The sequence of codes successive getopt_long calls return while scanning
\* argv from index i (GNU permutation: options are found behind operands too).
getopt_long(av, i) ==
    IF i > Len(av) \/ IsTerminator(av[i]) THEN <<>>
    ELSE IF IsOptionToken(av[i])
         THEN (IF av[i][2] = "-" THEN LongCode(av[i]) ELSE ShortCodes(av[i]))
              \o getopt_long(av, i + 1)
         ELSE getopt_long(av, i + 1)

RECURSIVE Operands(_, _)
\* argv[optind..] once getopt_long has returned -1: the non-option tokens in order.
Operands(av, i) ==
    IF i > Len(av) THEN <<>>
    ELSE IF IsTerminator(av[i]) THEN SubSeq(av, i + 1, Len(av))
    ELSE IF IsOptionToken(av[i]) THEN Operands(av, i + 1)
    ELSE <<av[i]>> \o Operands(av, i + 1)

----------------------------------------------------------------------------
(* varlink_uri_new(&uri, address, true, true): [ADDRESS/]INTERFACE[.METHOD] *)

InterfaceChars == {"i", "."}
MemberChars == {"M"}

varlink_uri_new(tok) ==
    LET slash   == LastIndexOf(tok, "/")
        rest    == SubSeq(tok, slash + 1, Len(tok))
        dot     == LastIndexOf(rest, ".")
        last    == SubSeq(rest, dot + 1, Len(rest))
        member  == dot > 0 /\ last # <<>> /\ \A k \in 1..Len(last) : last[k] \in MemberChars
        iface   == IF member THEN SubSeq(rest, 1, dot - 1) ELSE rest
        wellFormed ==
            /\ iface # <<>>
            /\ \A k \in 1..Len(iface) : iface[k] \in InterfaceChars
            /\ iface[1] # "." /\ iface[Len(iface)] # "."
    IN  IF wellFormed
        THEN [r |-> 0,
              uri |-> Some([address |-> IF slash = 0 THEN None
                                        ELSE Some(SubSeq(tok, 1, slash - 1)),
                            interface |-> iface,
                            qualified_member |-> IF member THEN Some(rest) ELSE None])]
        ELSE [r |-> -1, uri |-> None]

----------------------------------------------------------------------------
(* call_arguments_new *)

NoArguments == [help |-> FALSE, flags |-> {}, uri |-> None, parameters |-> None]

RECURSIVE ScanOptions_IgnoresUnknown(_, _, _)
\* The switch without case '?': an unknown option is skipped.
ScanOptions_IgnoresUnknown(codes, k, flags) ==
    IF k > Len(codes) THEN [r |-> 0, help |-> FALSE, flags |-> flags, done |-> FALSE]
    ELSE IF codes[k] = "h" THEN [r |-> 0, help |-> TRUE, flags |-> flags, done |-> TRUE]
    ELSE IF codes[k] = "m"
         THEN ScanOptions_IgnoresUnknown(codes, k + 1, flags \cup {VARLINK_CALL_MORE})
    ELSE ScanOptions_IgnoresUnknown(codes, k + 1, flags)

RECURSIVE ScanOptions_HelpKeepsScanning(_, _, _)
\* case 'h' with a break where the return is: help is noted and the scan goes on.
ScanOptions_HelpKeepsScanning(codes, k, flags) ==
    IF k > Len(codes) THEN [r |-> 0, help |-> FALSE, flags |-> flags, done |-> FALSE]
    ELSE IF codes[k] = "h"
         THEN [ScanOptions_HelpKeepsScanning(codes, k + 1, flags) EXCEPT !.help = TRUE]
    ELSE IF codes[k] = "m"
         THEN ScanOptions_HelpKeepsScanning(codes, k + 1, flags \cup {VARLINK_CALL_MORE})
    ELSE IF codes[k] = "?"
         THEN [r |-> -CLI_ERROR_INVALID_ARGUMENT, help |-> FALSE, flags |-> flags, done |-> TRUE]
    ELSE IF codes[k] = ":"
         THEN [r |-> -CLI_ERROR_MISSING_ARGUMENT, help |-> FALSE, flags |-> flags, done |-> TRUE]
    ELSE [r |-> -CLI_ERROR_PANIC, help |-> FALSE, flags |-> flags, done |-> TRUE]

RECURSIVE ScanOptions(_, _, _)
\* The while/switch over getopt_long's codes: 'h' returns at once with help set,
\* 'm' sets VARLINK_CALL_MORE, '?' and ':' fail, anything else is a panic.
ScanOptions(codes, k, flags) ==
    IF k > Len(codes) THEN [r |-> 0, help |-> FALSE, flags |-> flags, done |-> FALSE]
    ELSE IF codes[k] = "h" THEN [r |-> 0, help |-> TRUE, flags |-> flags, done |-> TRUE]
    ELSE IF codes[k] = "m" THEN ScanOptions(codes, k + 1, flags \cup {VARLINK_CALL_MORE})
    ELSE IF codes[k] = "?"
         THEN [r |-> -CLI_ERROR_INVALID_ARGUMENT, help |-> FALSE, flags |-> flags, done |-> TRUE]
    ELSE IF codes[k] = ":"
         THEN [r |-> -CLI_ERROR_MISSING_ARGUMENT, help |-> FALSE, flags |-> flags, done |-> TRUE]
    ELSE [r |-> -CLI_ERROR_PANIC, help |-> FALSE, flags |-> flags, done |-> TRUE]

\* [r, arguments]: arguments is handed out (*argumentsp) only when r = 0.
call_arguments_new(av) ==
    LET scan == ScanOptions(getopt_long(av, 1), 1, {})
        ops  == Operands(av, 1)
        u    == varlink_uri_new(ops[1])
    IN  IF scan.done
        THEN IF scan.help
             THEN [r |-> 0,
                   arguments |-> Some([NoArguments EXCEPT !.help = TRUE, !.flags = scan.flags])]
             ELSE [r |-> scan.r, arguments |-> None]
        ELSE IF ops = <<>>
             THEN [r |-> -CLI_ERROR_MISSING_ARGUMENT, arguments |-> None]
        ELSE IF u.r < 0
             THEN [r |-> -CLI_ERROR_INVALID_ARGUMENT, arguments |-> None]
        ELSE [r |-> 0,
              arguments |-> Some([help |-> FALSE,
                                  flags |-> scan.flags,
                                  uri |-> u.uri,
                                  parameters |-> IF Len(ops) >= 2 THEN Some(ops[2]) ELSE None])]

----------------------------------------------------------------------------
(* varlink_object_new_from_json: a JSON object of members "key":1 *)

Quote == "\""
KeyChars == {"a", "b", " "}

\* The C string held in bytes: what precedes the first NUL.
CString(bytes) ==
    LET n == FirstIndexOf(bytes, NUL)
    IN  IF n = 0 THEN bytes ELSE SubSeq(bytes, 1, n - 1)

\* text without its leading and trailing white space
Trim(text) ==
    LET I == {i \in 1..Len(text) : text[i] # " "}
    IN  IF I = {} THEN <<>>
        ELSE SubSeq(text, CHOOSE i \in I : \A j \in I : i <= j,
                          CHOOSE i \in I : \A j \in I : j <= i)

\* the first index from i on that holds no white space (Len(t) + 1 when none)
SkipSpace(t, i) ==
    LET I == {j \in i..Len(t) : t[j] # " "}
    IN  IF I = {} THEN Len(t) + 1 ELSE CHOOSE j \in I : \A k \in I : j <= k

PutMember(obj, key, val) == {m \in obj : m[1] # key} \cup {<<key, val>>}

RECURSIVE JsonScan(_, _, _, _, _)
\* One pass over the text; st is what the parser expects next.  The result is
\* the decoded object (optional: {} when the text is no JSON object).
JsonScan(t, i, st, key, obj) ==
    IF i > Len(t) THEN (IF st = "end" THEN Some(obj) ELSE None)
    ELSE LET c == t[i] IN
      CASE st = "start" -> IF c = "{" THEN JsonScan(t, i + 1, "first", <<>>, obj) ELSE None
        [] st = "first" -> IF c = " " THEN JsonScan(t, SkipSpace(t, i), "first", <<>>, obj)
                           ELSE IF c = "}" THEN JsonScan(t, i + 1, "end", <<>>, obj)
                           ELSE IF c = Quote THEN JsonScan(t, i + 1, "key", <<>>, obj)
                           ELSE None
        [] st = "next"  -> IF c = " " THEN JsonScan(t, SkipSpace(t, i), "next", <<>>, obj)
                           ELSE IF c = Quote THEN JsonScan(t, i + 1, "key", <<>>, obj)
                           ELSE None
        [] st = "key"   -> IF c = Quote THEN JsonScan(t, i + 1, "colon", key, obj)
                           ELSE IF c \in KeyChars THEN JsonScan(t, i + 1, "key", Append(key, c), obj)
                           ELSE None
        [] st = "colon" -> IF c = " " THEN JsonScan(t, SkipSpace(t, i), "colon", key, obj)
                           ELSE IF c = ":" THEN JsonScan(t, i + 1, "value", key, obj)
                           ELSE None
        [] st = "value" -> IF c = " " THEN JsonScan(t, SkipSpace(t, i), "value", key, obj)
                           ELSE IF c = "1" THEN JsonScan(t, i + 1, "after", <<>>, PutMember(obj, key, 1))
                           ELSE None
        [] st = "after" -> IF c = " " THEN JsonScan(t, SkipSpace(t, i), "after", <<>>, obj)
                           ELSE IF c = "," THEN JsonScan(t, i + 1, "next", <<>>, obj)
                           ELSE IF c = "}" THEN JsonScan(t, i + 1, "end", <<>>, obj)
                           ELSE None
        [] OTHER        -> None

\* [r, object] for the C string text
varlink_object_new_from_json(text) ==
    LET o == JsonScan(Trim(text), 1, "start", <<>>, {})
    IN  IF o = None THEN [r |-> -1, object |-> None] ELSE [r |-> 0, object |-> o]

----------------------------------------------------------------------------
(* varlink_object_to_pretty_json *)

RECURSIVE MembersJson(_)
MembersJson(obj) ==
    IF obj = {} THEN <<>>
    ELSE LET m == CHOOSE x \in obj : TRUE
             rest == MembersJson(obj \ {m})
         IN  <<Quote>> \o m[1] \o <<Quote, ":", "1">>
             \o (IF rest = <<>> THEN <<>> ELSE <<",">> \o rest)

\* [r, json]: fault is the serializer failing (it cannot write the value out)
varlink_object_to_pretty_json(obj, fault) ==
    IF fault THEN [r |-> -1, json |-> <<>>]
    ELSE [r |-> 0, json |-> <<"{">> \o MembersJson(obj) \o <<"}">>]

----------------------------------------------------------------------------
(* The inputs: argv, standard input, the peer's replies *)

JsonA == <<"{", Quote, "a", Quote, ":", "1", "}">>

Tokens ==
    { <<"-", "h">>, <<"-", "m">>, <<"-", "x">>, <<"-", "-", "m", "o">>, <<"-", "-">>,
      <<"i", ".", "M">>, <<"i">>, <<"-">>, JsonA, <<"{">> }

ArgvSet == UNION {[1..n -> Tokens] : n \in 0..MaxArgs}

\* "{", white space, "a":1} : n bytes in all
PaddedJson(n) == <<"{">> \o Repeat(" ", n - Len(JsonA)) \o SubSeq(JsonA, 2, Len(JsonA))

ShortStdinTexts ==
    { <<>>, JsonA, <<" ", "{", "}", " ">>, <<"{", Quote, "a">>,
      <<"{", "}", NUL, "{">> }

\* texts that fill the first buffer but for one byte, fill it, and overflow it
LongStdinTexts ==
    {PaddedJson(n) : n \in (MinBufferSize - 1)..(MinBufferSize + MaxOver)}

\* a text that fills the buffer exactly once it has been doubled
FullStdinTexts == {PaddedJson(2 * MinBufferSize)}

StdinTexts == ShortStdinTexts \cup LongStdinTexts \cup FullStdinTexts

\* command lines that read the parameters from standard input
StdinArgvs ==
    { << <<"i", ".", "M">>, <<"-">> >>, << <<"-", "m">>, <<"i", ".", "M">>, <<"-">> >> }

ErrorNames == {"org.varlink.service.MethodNotFound"}
ReplyValues == { {<<<<"a">>, 1>>} }

\* a reply message: error name (optional), parameters, flags
Replies ==
    [error : {None} \cup {Some(e) : e \in ErrorNames},
     parameters : ReplyValues,
     flags : SUBSET {VARLINK_REPLY_CONTINUES}]

----------------------------------------------------------------------------
(* What the program prints *)

Err(kind) == [fd |-> "stderr", kind |-> kind, text |-> <<>>]
Out(kind, text) == [fd |-> "stdout", kind |-> kind, text |-> text]

----------------------------------------------------------------------------
(* reply_callback *)

\* reply_callback without the test of VARLINK_REPLY_CONTINUES: it closes the
\* connection after every reply.
reply_callback_AlwaysCloses(reply, fault) ==
    LET errline == IF reply.error # None THEN <<Err("Call failed with error")>> ELSE <<>>
        j == varlink_object_to_pretty_json(reply.parameters, fault)
    IN  IF j.r < 0
        THEN [out |-> errline \o <<Err("Unable to read message")>>,
              errorp |-> Some(CLI_ERROR_INVALID_JSON), close |-> TRUE, r |-> 0]
        ELSE IF reply.error # None
        THEN [out |-> errline \o <<Out("json", j.json)>>,
              errorp |-> Some(CLI_ERROR_REMOTE_ERROR), close |-> TRUE, r |-> 0]
        ELSE [out |-> <<Out("json", j.json)>>, errorp |-> None, close |-> TRUE, r |-> 0]

\* reply_callback without lines 119-120: a success reply never closes the
\* connection.
reply_callback_NeverCloses(reply, fault) ==
    LET errline == IF reply.error # None THEN <<Err("Call failed with error")>> ELSE <<>>
        j == varlink_object_to_pretty_json(reply.parameters, fault)
    IN  IF j.r < 0
        THEN [out |-> errline \o <<Err("Unable to read message")>>,
              errorp |-> Some(CLI_ERROR_INVALID_JSON), close |-> TRUE, r |-> 0]
        ELSE IF reply.error # None
        THEN [out |-> errline \o <<Out("json", j.json)>>,
              errorp |-> Some(CLI_ERROR_REMOTE_ERROR), close |-> TRUE, r |-> 0]
        ELSE [out |-> <<Out("json", j.json)>>, errorp |-> None, close |-> FALSE, r |-> 0]

\* reply_callback with the error test behind the test of the flags: an error
\* reply that continues leaves the connection open.
reply_callback_ErrorContinues(reply, fault) ==
    LET errline == IF reply.error # None THEN <<Err("Call failed with error")>> ELSE <<>>
        j == varlink_object_to_pretty_json(reply.parameters, fault)
    IN  IF j.r < 0
        THEN [out |-> errline \o <<Err("Unable to read message")>>,
              errorp |-> Some(CLI_ERROR_INVALID_JSON), close |-> TRUE, r |-> 0]
        ELSE IF VARLINK_REPLY_CONTINUES \in reply.flags
        THEN [out |-> errline \o <<Out("json", j.json)>>, errorp |-> None,
              close |-> FALSE, r |-> 0]
        ELSE [out |-> errline \o <<Out("json", j.json)>>,
              errorp |-> IF reply.error # None THEN Some(CLI_ERROR_REMOTE_ERROR) ELSE None,
              close |-> TRUE, r |-> 0]

\* reply_callback printing the error line in the block that records the
\* error, behind the value.
reply_callback_ErrorLineLast(reply, fault) ==
    LET errline == IF reply.error # None THEN <<Err("Call failed with error")>> ELSE <<>>
        j == varlink_object_to_pretty_json(reply.parameters, fault)
    IN  IF j.r < 0
        THEN [out |-> <<Err("Unable to read message")>>,
              errorp |-> Some(CLI_ERROR_INVALID_JSON), close |-> TRUE, r |-> 0]
        ELSE IF reply.error # None
        THEN [out |-> <<Out("json", j.json)>> \o errline,
              errorp |-> Some(CLI_ERROR_REMOTE_ERROR), close |-> TRUE, r |-> 0]
        ELSE [out |-> <<Out("json", j.json)>>,
              errorp |-> None,
              close |-> ~(VARLINK_REPLY_CONTINUES \in reply.flags), r |-> 0]

\* [out, errorp, close, r]: what it prints, what it stores through userdata
\* (optional), whether it calls varlink_connection_close, and its return value.
reply_callback(reply, fault) ==
    LET errline == IF reply.error # None THEN <<Err("Call failed with error")>> ELSE <<>>
        j == varlink_object_to_pretty_json(reply.parameters, fault)
    IN  IF j.r < 0
        THEN [out |-> errline \o <<Err("Unable to read message")>>,
              errorp |-> Some(CLI_ERROR_INVALID_JSON), close |-> TRUE, r |-> 0]
        ELSE IF reply.error # None
        THEN [out |-> errline \o <<Out("json", j.json)>>,
              errorp |-> Some(CLI_ERROR_REMOTE_ERROR), close |-> TRUE, r |-> 0]
        ELSE [out |-> <<Out("json", j.json)>>,
              errorp |-> None,
              close |-> ~(VARLINK_REPLY_CONTINUES \in reply.flags), r |-> 0]

----------------------------------------------------------------------------
(* cli_process_all_events: the value it returns for what ends the loop *)

cli_process_all_events(ev) ==
    CASE ev = "closed"      -> 0
      [] ev = "canceled"    -> -CLI_ERROR_CANCELED
      [] ev = "peer-closed" -> -CLI_ERROR_CONNECTION_CLOSED
      [] OTHER              -> -CLI_ERROR_PANIC

\* The switch of lines 218-228 without the case of CLI_ERROR_CANCELED.
ProcessResult_CancelFails(r) ==
    IF r >= 0 THEN [ret |-> 0, out |-> <<>>]
    ELSE IF r = -CLI_ERROR_CONNECTION_CLOSED
         THEN [ret |-> r, out |-> <<Err("Connection closed")>>]
    ELSE [ret |-> r, out |-> <<Err("Unable to process events")>>]

\* The switch of lines 218-228 with a return 0 in the case of
\* CLI_ERROR_CONNECTION_CLOSED.
ProcessResult_ClosedSucceeds(r) ==
    IF r >= 0 THEN [ret |-> 0, out |-> <<>>]
    ELSE IF r = -CLI_ERROR_CANCELED THEN [ret |-> 0, out |-> <<>>]
    ELSE IF r = -CLI_ERROR_CONNECTION_CLOSED
         THEN [ret |-> 0, out |-> <<Err("Connection closed")>>]
    ELSE [ret |-> r, out |-> <<Err("Unable to process events")>>]

\* call_run reading the error variable once the loop has ended in peace.
ProcessResult_ReturnsError(r) ==
    IF r >= 0 THEN [ret |-> -error', out |-> <<>>]
    ELSE IF r = -CLI_ERROR_CANCELED THEN [ret |-> 0, out |-> <<>>]
    ELSE IF r = -CLI_ERROR_CONNECTION_CLOSED
         THEN [ret |-> r, out |-> <<Err("Connection closed")>>]
    ELSE [ret |-> r, out |-> <<Err("Unable to process events")>>]

\* call_run after cli_process_all_events has returned r: [ret, out]
ProcessResult(r) ==
    IF r >= 0 THEN [ret |-> 0, out |-> <<>>]
    ELSE IF r = -CLI_ERROR_CANCELED THEN [ret |-> 0, out |-> <<>>]
    ELSE IF r = -CLI_ERROR_CONNECTION_CLOSED
         THEN [ret |-> r, out |-> <<Err("Connection closed")>>]
    ELSE [ret |-> r, out |-> <<Err("Unable to process events")>>]

----------------------------------------------------------------------------
(* call_run *)

Init ==
    /\ argv \in ArgvSet
    /\ pc = "start"
    /\ arguments = None
    /\ stdin = ShortStdinTexts
    /\ delivered = <<>>
    /\ readFailed = FALSE
    /\ buffer = <<>>
    /\ buffer_size = 0
    /\ size = 0
    /\ parameters = None
    /\ connection = "none"
    /\ request = None
    /\ error = 0
    /\ replies = <<>>
    /\ output = <<>>
    /\ event = "none"
    /\ connects = 0
    /\ calls = 0
    /\ closes = 0
    /\ ret = 0
    /\ current = <<>>
    /\ address = None
    /\ interface = None
    /\ resolves = 0
    /\ cli_calls = <<>>
    /\ waited = None
    /\ described = None

\* varlink_connection_freep on a connection closed n times so far: it closes
\* the connection when it is still open.  [connection, closes]
varlink_connection_freep(conn, n) ==
    [connection |-> IF conn = "none" THEN "none" ELSE "freed",
     closes |-> IF conn = "open" THEN n + 1 ELSE n]

\* return with the connection declared without its _cleanup_ handler.
Return_LeavesConnection(r, out, conn, n) ==
    /\ pc' = "done"
    /\ ret' = r
    /\ output' = output \o out
    /\ arguments' = None
    /\ buffer' = <<>>
    /\ parameters' = None
    /\ connection' = IF conn = "none" THEN "none" ELSE "freed"
    /\ closes' = n

\* return r after printing out: the _cleanup_ handlers release the arguments,
\* the buffer, the decoded parameters and the connection (conn, closed n times
\* so far), closing it when it is still open.
Return(r, out, conn, n) ==
    /\ pc' = "done"
    /\ ret' = r
    /\ output' = output \o out
    /\ arguments' = None
    /\ buffer' = <<>>
    /\ parameters' = None
    /\ connection' = varlink_connection_freep(conn, n).connection
    /\ closes' = varlink_connection_freep(conn, n).closes

\* strncmp where strcmp is: any token that starts with '-' selects standard input.
IsStdinSentinel_AnyDash(tok) == tok # <<>> /\ tok[1] = "-"

\* strcmp(arguments->parameters, "-") == 0
IsStdinSentinel(tok) == tok = <<"-">>

\* Lines 133-195 for arguments that need no read of standard input.
ParseArguments ==
    /\ pc = "start"
    /\ LET a == call_arguments_new(argv)
           args == Get(a.arguments)
           json == varlink_object_new_from_json(Get(args.parameters))
       IN  IF a.r = -CLI_ERROR_MISSING_ARGUMENT
           THEN Return(-CLI_ERROR_MISSING_ARGUMENT, <<Err("Missing argument")>>, connection, closes)
                /\ UNCHANGED <<buffer_size, size>>
           ELSE IF a.r = -CLI_ERROR_INVALID_ARGUMENT
           THEN Return(-CLI_ERROR_INVALID_ARGUMENT, <<Err("Invalid argument")>>, connection, closes)
                /\ UNCHANGED <<buffer_size, size>>
           ELSE IF a.r # 0
           THEN Return(-CLI_ERROR_PANIC, <<Err("Unknown error")>>, connection, closes)
                /\ UNCHANGED <<buffer_size, size>>
           ELSE IF args.help
           THEN Return(0, <<Out("usage", <<>>)>>, connection, closes)
                /\ UNCHANGED <<buffer_size, size>>
           ELSE IF (Get(args.uri)).qualified_member = None
           THEN Return(-CLI_ERROR_INVALID_ARGUMENT, <<Err("Missing method")>>, connection, closes)
                /\ UNCHANGED <<buffer_size, size>>
           ELSE IF args.parameters = None
           THEN /\ pc' = "connect"
                /\ arguments' = a.arguments
                /\ UNCHANGED <<buffer, buffer_size, size, parameters, connection, closes,
                               output, ret>>
           ELSE IF IsStdinSentinel(Get(args.parameters))
           THEN /\ pc' = "read"
                /\ arguments' = a.arguments
                /\ buffer_size' = 0
                /\ size' = 0
                /\ UNCHANGED <<buffer, parameters, connection, closes, output, ret>>
           ELSE IF json.r < 0
           THEN Return(-CLI_ERROR_INVALID_JSON, <<Err("Unable to parse input parameters")>>,
                       connection, closes)
                /\ UNCHANGED <<buffer_size, size>>
           ELSE /\ pc' = "connect"
                /\ arguments' = a.arguments
                /\ parameters' = json.object
                /\ UNCHANGED <<buffer, buffer_size, size, connection, closes, output, ret>>
    /\ UNCHANGED <<argv, stdin, delivered, readFailed, request, error, replies, event,
                   connects, calls>>
    /\ UNCHANGED helpVars

\* the buffer grown by the minimum size on top of its doubling
MAX_Sum(a, b) == a + b

\* MAX(a, b)
MAX(a, b) == IF a >= b THEN a ELSE b
Min(a, b) == IF a <= b THEN a ELSE b

\* realloc(buffer, n): the old bytes, then bytes never written
realloc(buf, n) == buf \o Repeat(Uninit, n - Len(buf))

\* read(STDIN_FILENO, buffer + size, ...) stored at a wrong place: at the start
\* of the buffer instead of behind the bytes read so far.
ReadInto_AtStart(buf, sz, chunk) ==
    [i \in 1..Len(buf) |-> IF i <= Len(chunk) THEN chunk[i] ELSE buf[i]]

\* The buffer once read(STDIN_FILENO, buffer + size, ...) has stored chunk.
ReadInto(buf, sz, chunk) ==
    [i \in 1..Len(buf) |->
        IF i > sz /\ i <= sz + Len(chunk) THEN chunk[i - sz] ELSE buf[i]]

\* What read(STDIN_FILENO, buffer + size, free) may return when standard input
\* still holds rest: a few bytes, all it can hand out or a few less, 0 at
\* end-of-input, or -1 (an error).
ReadResults(rest, free) ==
    LET avail == Min(Len(rest), free)
    IN  {k \in 1..avail : k <= MaxShortRead \/ k >= avail - MaxShortRead}
        \cup (IF avail = 0 THEN {0} ELSE {}) \cup {-1}

\* One turn of the for (;;) loop of lines 171-183 and, when read() returns
\* r <= 0, lines 185-195: terminate the buffer, decode it.
ReadStdin ==
    /\ pc = "read"
    /\ LET grow == size = buffer_size
           bs   == IF grow THEN MAX(buffer_size * 2, MinBufferSize) ELSE buffer_size
           buf  == IF grow THEN realloc(buffer, bs) ELSE buffer
       IN  \E rest \in stdin :
           \E r \in ReadResults(rest, bs - size) :
             /\ buffer_size' = bs
             /\ IF r <= 0
                THEN LET term == [buf EXCEPT ![size + 1] = NUL]
                         text == CString(term)
                         json == varlink_object_new_from_json(text)
                     IN  /\ stdin' = {rest}
                         /\ readFailed' = (r < 0)
                         /\ UNCHANGED <<delivered, size>>
                         /\ IF json.r < 0
                            THEN Return(-CLI_ERROR_INVALID_JSON,
                                        <<Err("Unable to parse input parameters")>>,
                                        connection, closes)
                            ELSE /\ pc' = "connect"
                                 /\ buffer' = term
                                 /\ arguments' = Some([Get(arguments) EXCEPT !.parameters = Some(text)])
                                 /\ parameters' = json.object
                                 /\ UNCHANGED <<connection, closes, output, ret>>
                ELSE /\ buffer' = ReadInto(buf, size, SubSeq(rest, 1, r))
                     /\ size' = size + r
                     /\ stdin' = {SubSeq(rest, r + 1, Len(rest))}
                     /\ delivered' = delivered \o SubSeq(rest, 1, r)
                     /\ UNCHANGED <<pc, arguments, parameters, connection, closes, output,
                                    ret, readFailed>>
    /\ UNCHANGED <<argv, request, error, replies, event, connects, calls>>
    /\ UNCHANGED helpVars

\* Lines 197-201: cli_connect succeeds or fails.
Connect ==
    /\ pc = "connect"
    /\ connects' = connects + 1
    /\ \E ok \in BOOLEAN :
         IF ok
         THEN /\ pc' = "call"
              /\ connection' = "open"
              /\ UNCHANGED <<arguments, buffer, parameters, closes, output, ret>>
         ELSE Return(-CLI_ERROR_CANNOT_CONNECT, <<Err("Unable to connect")>>, connection, closes)
    /\ UNCHANGED <<argv, stdin, delivered, readFailed, buffer_size, size, request, error,
                   replies, event, calls>>
    /\ UNCHANGED helpVars

\* Lines 203-212: varlink_connection_call queues the call or fails.
Call ==
    /\ pc = "call"
    /\ calls' = calls + 1
    /\ \E ok \in BOOLEAN :
         IF ok
         THEN /\ pc' = "events"
              /\ request' = Some([method |-> Get((Get((Get(arguments)).uri)).qualified_member),
                                  parameters |-> parameters,
                                  flags |-> (Get(arguments)).flags])
              /\ UNCHANGED <<arguments, buffer, parameters, connection, closes, output, ret>>
         ELSE /\ Return(-CLI_ERROR_CALL_FAILED, <<Err("Unable to call")>>, connection, closes)
              /\ UNCHANGED request
    /\ UNCHANGED <<argv, stdin, delivered, readFailed, buffer_size, size, error,
                   replies, event, connects>>
    /\ UNCHANGED helpVars

\* Lines 214-231, a reply arrives: cli_process_all_events hands it to
\* reply_callback and, when the callback has closed the connection, returns.
DispatchReply ==
    /\ pc = "events"
    /\ connection = "open"
    /\ Len(replies) < MaxReplies
    /\ \E reply \in Replies, fault \in BOOLEAN :
         LET cb == reply_callback(reply, fault)
             res == ProcessResult(cli_process_all_events("closed"))
         IN  /\ replies' = Append(replies, [reply |-> reply, fault |-> fault, closed |-> cb.close])
             /\ error' = IF cb.errorp = None THEN error ELSE Get(cb.errorp)
             /\ IF cb.close
                THEN /\ Return(res.ret, cb.out \o res.out, "closed", closes + 1)
                     /\ event' = "closed"
                ELSE /\ output' = output \o cb.out
                     /\ UNCHANGED <<pc, ret, arguments, buffer, parameters, connection,
                                    closes, event>>
    /\ UNCHANGED <<argv, stdin, delivered, readFailed, buffer_size, size, request,
                   connects, calls>>
    /\ UNCHANGED helpVars

\* Lines 214-231, the loop ends without a reply: a signal (SIGINT, SIGTERM), the
\* peer closing the connection, or a failure of the event loop itself.
LoopEnds(ev) ==
    /\ pc = "events"
    /\ connection = "open"
    /\ LET res == ProcessResult(cli_process_all_events(ev))
       IN  Return(res.ret, res.out, connection, closes)
    /\ event' = ev
    /\ UNCHANGED <<argv, stdin, delivered, readFailed, buffer_size, size, request, error,
                   replies, connects, calls>>
    /\ UNCHANGED helpVars

Cancel == LoopEnds("canceled")
PeerCloses == LoopEnds("peer-closed")
EventsFail == LoopEnds("failed")

Next ==
    \/ ParseArguments
    \/ ReadStdin
    \/ Connect
    \/ Call
    \/ DispatchReply
    \/ Cancel
    \/ PeerCloses
    \/ EventsFail

Spec == Init /\ [][Next]_vars

\* The same program, run on the command lines that read standard input, with
\* standard input holding any of the texts, the long ones included.
InitStdin ==
    /\ argv \in StdinArgvs
    /\ pc = "start"
    /\ arguments = None
    /\ stdin = StdinTexts
    /\ delivered = <<>>
    /\ readFailed = FALSE
    /\ buffer = <<>>
    /\ buffer_size = 0
    /\ size = 0
    /\ parameters = None
    /\ connection = "none"
    /\ request = None
    /\ error = 0
    /\ replies = <<>>
    /\ output = <<>>
    /\ event = "none"
    /\ connects = 0
    /\ calls = 0
    /\ closes = 0
    /\ ret = 0
    /\ current = <<>>
    /\ address = None
    /\ interface = None
    /\ resolves = 0
    /\ cli_calls = <<>>
    /\ waited = None
    /\ described = None

SpecStdin == InitStdin /\ [][Next]_vars

----------------------------------------------------------------------------
(* call_complete *)

\* call_complete with the two tests in the other order: methods are offered
\* before the word is looked at.
call_complete_MethodsFirst(av, cur) ==
    LET a == call_arguments_new(av)
        r == a.r
    IN  IF r \notin {0, -CLI_ERROR_INVALID_ARGUMENT, -CLI_ERROR_MISSING_ARGUMENT}
        THEN [kind |-> "return", r |-> -r]
        ELSE IF a.arguments = None \/ (Get(a.arguments)).uri = None
                \/ (Get((Get(a.arguments)).uri)).qualified_member = None
        THEN [kind |-> "cli_complete_methods", r |-> 0]
        ELSE IF cur # <<>> /\ cur[1] = "-"
        THEN [kind |-> "cli_complete_options", r |-> 0]
        ELSE IF (Get(a.arguments)).parameters = None
        THEN [kind |-> "cli_print_completion", r |-> 0]
        ELSE [kind |-> "return", r |-> 0]

\* call_complete: what it ends with.  kind is the helper it hands the word to
\* (cli_complete_options and cli_complete_methods decide the return value
\* themselves), the placeholder it prints, or a plain return of r.
call_complete(av, cur) ==
    LET a == call_arguments_new(av)
        r == a.r
    IN  IF r \notin {0, -CLI_ERROR_INVALID_ARGUMENT, -CLI_ERROR_MISSING_ARGUMENT}
        THEN [kind |-> "return", r |-> -r]
        ELSE IF cur # <<>> /\ cur[1] = "-"
        THEN [kind |-> "cli_complete_options", r |-> 0]
        ELSE IF a.arguments = None \/ (Get(a.arguments)).uri = None
                \/ (Get((Get(a.arguments)).uri)).qualified_member = None
        THEN [kind |-> "cli_complete_methods", r |-> 0]
        ELSE IF (Get(a.arguments)).parameters = None
        THEN [kind |-> "cli_print_completion", r |-> 0]
        ELSE [kind |-> "return", r |-> 0]

\* The placeholder cli_print_completion is given
Placeholder == <<"'", "{", "}", "'">>

\* The words being completed
Currents == { <<>>, <<"-">>, <<"-", "-", "m">>, <<"i">>, <<"{">> }

\* What cli_complete_options and cli_complete_methods may return
HelperResults == {0, -CLI_ERROR_PANIC}

InitComplete ==
    /\ argv \in ArgvSet
    /\ pc = "complete"
    /\ arguments = None
    /\ stdin = ShortStdinTexts
    /\ delivered = <<>>
    /\ readFailed = FALSE
    /\ buffer = <<>>
    /\ buffer_size = 0
    /\ size = 0
    /\ parameters = None
    /\ connection = "none"
    /\ request = None
    /\ error = 0
    /\ replies = <<>>
    /\ output = <<>>
    /\ event = "none"
    /\ connects = 0
    /\ calls = 0
    /\ closes = 0
    /\ ret = 0
    /\ current \in Currents
    /\ address = None
    /\ interface = None
    /\ resolves = 0
    /\ cli_calls = <<>>
    /\ waited = None
    /\ described = None

\* Lines 233-258, with the candidates a helper prints recorded as one output.
CallComplete ==
    /\ pc = "complete"
    /\ pc' = "done"
    /\ LET c == call_complete(argv, current)
       IN  IF c.kind \in {"cli_complete_options", "cli_complete_methods"}
           THEN /\ output' = Append(output, Out(c.kind, current))
                /\ ret' \in HelperResults
           ELSE IF c.kind = "cli_print_completion"
           THEN /\ output' = Append(output, Out(c.kind, Placeholder))
                /\ ret' = c.r
           ELSE /\ output' = output
                /\ ret' = c.r
    /\ UNCHANGED <<argv, arguments, stdin, delivered, readFailed, buffer, buffer_size, size,
                   parameters, connection, request, error, replies, event, connects,
                   calls, closes>>
    /\ UNCHANGED helpVars

NextComplete == CallComplete

SpecComplete == InitComplete /\ [][NextComplete]_vars

----------------------------------------------------------------------------
(* help_run, help_interface *)

\* getopt_long(argc, argv, "a:h", options): the first code it returns on av
\* from token i on, "end" when av holds no option.  -a takes an argument, in
\* the same token or the next one.
RECURSIVE help_getopt(_, _)
help_getopt(av, i) ==
    IF i > Len(av) \/ IsTerminator(av[i]) THEN "end"
    ELSE IF ~IsOptionToken(av[i]) THEN help_getopt(av, i + 1)
    ELSE IF av[i][2] = "-"
         THEN IF IsPrefix(SubSeq(av[i], 3, Len(av[i])), <<"h", "e", "l", "p">>) THEN "h" ELSE "?"
    ELSE IF av[i][2] = "h" THEN "h"
    ELSE IF av[i][2] = "a" /\ (Len(av[i]) > 2 \/ i < Len(av)) THEN "a"
    ELSE "?"

\* cli_split_address: [address, interface]
cli_split_address(tok) ==
    LET slash == LastIndexOf(tok, "/")
    IN  IF slash = 0
        THEN [address |-> None, interface |-> tok]
        ELSE [address |-> Some(SubSeq(tok, 1, slash)),
              interface |-> SubSeq(tok, slash + 1, Len(tok))]

GetInterfaceDescription == "org.varlink.service.GetInterfaceDescription"

\* One method of an interface description: method NAME () -> ()
MethodTokens(name) == <<"method", name, "(", ")", "->", "(", ")">>
MethodNames == {"M", "N"}

\* the members of an interface description, from token i on: [r, methods]
RECURSIVE ParseMembers(_, _, _)
ParseMembers(text, i, methods) ==
    IF i > Len(text) THEN [r |-> 0, methods |-> methods]
    ELSE IF i + 6 <= Len(text) /\ text[i + 1] \in MethodNames
            /\ SubSeq(text, i, i + 6) = MethodTokens(text[i + 1])
         THEN ParseMembers(text, i + 7, Append(methods, text[i + 1]))
    ELSE [r |-> -1, methods |-> <<>>]

\* varlink_interface_new: [r, interface]
varlink_interface_new(text) ==
    IF Len(text) < 2 \/ text[1] # "interface" \/ text[2] \in {"method", "(", ")", "->"}
    THEN [r |-> -1, interface |-> None]
    ELSE LET m == ParseMembers(text, 3, <<>>)
         IN  IF m.r < 0 THEN [r |-> -1, interface |-> None]
             ELSE [r |-> 0, interface |-> Some([name |-> text[2], methods |-> m.methods])]

RECURSIVE WriteMembers(_, _)
WriteMembers(methods, i) ==
    IF i > Len(methods) THEN <<>>
    ELSE <<"\n", "MAGENTA", "method", "NORMAL", "GREEN", methods[i], "NORMAL",
           "(", ")", "->", "(", ")">> \o WriteMembers(methods, i + 1)

\* varlink_interface_write_interfacestring: [r, string]; fault: it fails
varlink_interface_write_interfacestring(iface, fault) ==
    IF fault THEN [r |-> -CLI_ERROR_PANIC, string |-> <<>>]
    ELSE [r |-> 0,
          string |-> <<"BLUE", "interface", "NORMAL", iface.name>>
                     \o WriteMembers(iface.methods, 1)]

\* varlink_object_get_string(reply, field): [r, string].  A value of a reply
\* is [string |-> text] or [number |-> n].
varlink_object_get_string(object, field) ==
    LET vs == {m[2] : m \in {n \in object : n[1] = field}}
    IN  IF vs = {} \/ DOMAIN (CHOOSE v \in vs : TRUE) # {"string"}
        THEN [r |-> -1, string |-> <<>>]
        ELSE [r |-> 0, string |-> (CHOOSE v \in vs : TRUE).string]

\* help_interface treating an error reply as its own failure.
help_interface_ErrorFails(w, fault) ==
    IF w.error # None
    THEN [r |-> -CLI_ERROR_REMOTE_ERROR, out |-> <<Out("Error", Get(w.error))>>]
    ELSE LET d == varlink_object_get_string(Get(w.reply), "description")
             i == varlink_interface_new(d.string)
             s == varlink_interface_write_interfacestring(Get(i.interface), fault)
         IN  IF d.r < 0 THEN [r |-> -CLI_ERROR_CALL_FAILED, out |-> <<>>]
             ELSE IF i.r < 0 THEN [r |-> -CLI_ERROR_PANIC, out |-> <<>>]
             ELSE IF s.r < 0 THEN [r |-> s.r, out |-> <<>>]
             ELSE [r |-> 0, out |-> <<Out("interface", s.string)>>]

\* help_interface with one failure code for both ways the description can be
\* unusable.
help_interface_ParseFailureIsCallFailed(w, fault) ==
    IF w.error # None
    THEN [r |-> 0, out |-> <<Out("Error", Get(w.error))>>]
    ELSE LET d == varlink_object_get_string(Get(w.reply), "description")
             i == varlink_interface_new(d.string)
             s == varlink_interface_write_interfacestring(Get(i.interface), fault)
         IN  IF d.r < 0 \/ i.r < 0 THEN [r |-> -CLI_ERROR_CALL_FAILED, out |-> <<>>]
             ELSE IF s.r < 0 THEN [r |-> s.r, out |-> <<>>]
             ELSE [r |-> 0, out |-> <<Out("interface", s.string)>>]

\* help_interface, lines 30-59, once cli_wait_reply has handed it w (a reply
\* and possibly an error name); fault: writing the interface fails.  [r, out]
help_interface(w, fault) ==
    IF w.error # None
    THEN [r |-> 0, out |-> <<Out("Error", Get(w.error))>>]
    ELSE LET d == varlink_object_get_string(Get(w.reply), "description")
             i == varlink_interface_new(d.string)
             s == varlink_interface_write_interfacestring(Get(i.interface), fault)
         IN  IF d.r < 0 THEN [r |-> -CLI_ERROR_CALL_FAILED, out |-> <<>>]
             ELSE IF i.r < 0 THEN [r |-> -CLI_ERROR_PANIC, out |-> <<>>]
             ELSE IF s.r < 0 THEN [r |-> s.r, out |-> <<>>]
             ELSE [r |-> 0, out |-> <<Out("interface", s.string)>>]

\* help_run, lines 110-114
help_status(r) == IF r < 0 THEN EXIT_FAILURE ELSE EXIT_SUCCESS

\* The command lines of the help command
HelpTokens ==
    { <<"-", "h">>, <<"-", "-", "h", "e">>, <<"-", "a">>, <<"-", "-">>,
      <<"i">>, <<"a", "/", "i">> }
HelpArgvSet == UNION {[1..n -> HelpTokens] : n \in 0..MaxArgs}

\* What the service may send as a description
DescriptionOk == <<"interface", "i">> \o MethodTokens("M") \o MethodTokens("N")
Descriptions ==
    { DescriptionOk,
      <<"interface", "i">> \o MethodTokens("M"),
      <<"interface", "i", "method", "M", "(">>,
      MethodTokens("M"),
      <<>> }
DescriptionReplies ==
    {{}, {<<"description", [number |-> 1]>>}}
    \cup {{<<"description", [string |-> d]>>} : d \in Descriptions}

\* What cli_wait_reply may hand back: a failure, an error reply, a reply
WaitResults ==
    {[r |-> -CLI_ERROR_CONNECTION_CLOSED, error |-> None, reply |-> None]}
    \cup [r : {0}, error : {None} \cup {Some(e) : e \in ErrorNames},
          reply : {Some(o) : o \in DescriptionReplies}]

InitHelp ==
    /\ argv \in HelpArgvSet
    /\ pc = "help-start"
    /\ arguments = None
    /\ stdin = ShortStdinTexts
    /\ delivered = <<>>
    /\ readFailed = FALSE
    /\ buffer = <<>>
    /\ buffer_size = 0
    /\ size = 0
    /\ parameters = None
    /\ connection = "none"
    /\ request = None
    /\ error = 0
    /\ replies = <<>>
    /\ output = <<>>
    /\ event = "none"
    /\ connects = 0
    /\ calls = 0
    /\ closes = 0
    /\ ret = 0
    /\ current = <<>>
    /\ address = None
    /\ interface = None
    /\ resolves = 0
    /\ cli_calls = <<>>
    /\ waited = None
    /\ described = None

\* the variables of call_run that the help command leaves alone
callVars == <<arguments, stdin, delivered, readFailed, buffer, buffer_size, size,
              parameters, request, error, replies, event, calls, closes, current>>

\* help_run returns r after printing out
HelpReturn(r, out) ==
    /\ pc' = "done"
    /\ ret' = r
    /\ output' = output \o out

\* The test of line 96 left out: the name is resolved whatever the target says.
NeedsResolve_Always(addr) == TRUE

\* if (!address)
NeedsResolve(addr) == addr = None

\* Lines 72-94: the options, the target and its split.
HelpParseArguments ==
    /\ pc = "help-start"
    /\ LET c == help_getopt(argv, 1)
           ops == Operands(argv, 1)
           split == cli_split_address(ops[1])
       IN  IF c = "h"
           THEN HelpReturn(EXIT_SUCCESS, <<Out("usage", <<>>)>>)
                /\ UNCHANGED <<address, interface>>
           ELSE IF c # "end"
           THEN HelpReturn(EXIT_FAILURE, <<Err("Try --help")>>)
                /\ UNCHANGED <<address, interface>>
           ELSE IF ops = <<>>
           THEN HelpReturn(EXIT_FAILURE, <<Err("usage")>>)
                /\ UNCHANGED <<address, interface>>
           ELSE /\ address' = split.address
                /\ interface' = Some(split.interface)
                /\ pc' = IF NeedsResolve(split.address) THEN "resolve" ELSE "help-connect"
                /\ UNCHANGED <<ret, output>>
    /\ UNCHANGED <<argv, connection, connects, resolves, cli_calls, waited, described>>
    /\ UNCHANGED callVars

\* Lines 96-102: cli_resolve finds an address or fails.
HelpResolve ==
    /\ pc = "resolve"
    /\ resolves' = resolves + 1
    /\ \E ok \in BOOLEAN :
         IF ok
         THEN /\ address' = Some(<<"r", "/">>)
              /\ pc' = "help-connect"
              /\ UNCHANGED <<ret, output>>
         ELSE /\ HelpReturn(CLI_ERROR_CANNOT_RESOLVE, <<Err("Error resolving interface")>>)
              /\ UNCHANGED address
    /\ UNCHANGED <<argv, interface, connection, connects, cli_calls, waited, described>>
    /\ UNCHANGED callVars

\* Lines 104-108: cli_connect succeeds or fails.
HelpConnect ==
    /\ pc = "help-connect"
    /\ connects' = connects + 1
    /\ \E ok \in BOOLEAN :
         IF ok
         THEN /\ pc' = "help-call"
              /\ connection' = "open"
              /\ UNCHANGED <<ret, output>>
         ELSE /\ HelpReturn(CLI_ERROR_CANNOT_CONNECT, <<Err("Error connecting")>>)
              /\ UNCHANGED connection
    /\ UNCHANGED <<argv, address, interface, resolves, cli_calls, waited, described>>
    /\ UNCHANGED callVars

\* help_interface, lines 20-24: cli_call sends the call or fails.
HelpCall ==
    /\ pc = "help-call"
    /\ cli_calls' = Append(cli_calls,
                           [method |-> GetInterfaceDescription,
                            parameters |-> {<<"interface", [string |-> Get(interface)]>>},
                            flags |-> {}])
    /\ \E ok \in BOOLEAN :
         IF ok
         THEN /\ pc' = "wait-reply"
              /\ UNCHANGED <<ret, output, described>>
         ELSE /\ HelpReturn(help_status(-CLI_ERROR_CALL_FAILED), <<>>)
              /\ described' = Some(-CLI_ERROR_CALL_FAILED)
    /\ UNCHANGED <<argv, address, interface, connection, connects, resolves, waited>>
    /\ UNCHANGED callVars

\* help_interface, lines 26-59, and help_run, lines 110-114.
HelpWaitReply ==
    /\ pc = "wait-reply"
    /\ \E w \in WaitResults, fault \in BOOLEAN :
         LET h == IF w.r < 0 THEN [r |-> w.r, out |-> <<>>] ELSE help_interface(w, fault)
         IN  /\ waited' = Some(w)
             /\ described' = Some(h.r)
             /\ HelpReturn(help_status(h.r), h.out)
    /\ UNCHANGED <<argv, address, interface, connection, connects, resolves, cli_calls>>
    /\ UNCHANGED callVars

NextHelp ==
    \/ HelpParseArguments
    \/ HelpResolve
    \/ HelpConnect
    \/ HelpCall
    \/ HelpWaitReply

SpecHelp == InitHelp /\ [][NextHelp]_vars

----------------------------------------------------------------------------
(* Properties *)

\* the call was issued with --more
Streaming == request # None /\ VARLINK_CALL_MORE \in (Get(request)).flags

\* the number of reply values printed
Rendered == Cardinality({i \in 1..Len(output) : output[i].kind = "json"})

IsSuccess(h) == h.reply.error = None /\ ~h.fault
IsError(h) == h.reply.error # None /\ ~h.fault
Continues(h) == VARLINK_REPLY_CONTINUES \in h.reply.flags
LastReply == replies[Len(replies)]

\* the replies so far are rendered success replies that all continue, but
\* possibly the last
SuccessStream ==
    /\ replies # <<>>
    /\ \A i \in 1..Len(replies) :
         IsSuccess(replies[i]) /\ (i < Len(replies) => Continues(replies[i]))

\* C1: with --more, while the success replies continue each one is rendered and
\* the connection stays open; the reply N that does not continue is rendered too,
\* is the only one on which reply_callback closes the connection, and ends
\* call_run with 0 (completed): N replies rendered in all.
C1_StreamRendersAllAndCompletes ==
    (Streaming /\ SuccessStream) =>
        /\ Rendered = Len(replies)
        /\ \A i \in 1..Len(replies) : replies[i].closed <=> (i = Len(replies) /\ ~Continues(LastReply))
        /\ IF Continues(LastReply)
           THEN pc = "events" \/ event \in {"canceled", "peer-closed", "failed"}
           ELSE pc = "done" /\ ret = 0 /\ event = "closed" /\ closes = 1 /\ error = 0

C1_Witness ==
    /\ Streaming /\ SuccessStream /\ Len(replies) >= 3
    /\ ~Continues(LastReply) /\ pc = "done" /\ ret = 0

\* C2: without --more, a first reply that is a success reply without the
\* continuation indicator is rendered once, reply_callback closes the connection
\* on it, call_run ends, and no second reply is ever dispatched or rendered.
C2_SingleReplyEndsLoop ==
    (request # None /\ ~Streaming /\ replies # <<>>
        /\ IsSuccess(replies[1]) /\ ~Continues(replies[1])) =>
        /\ Len(replies) = 1
        /\ Rendered = 1
        /\ replies[1].closed
        /\ closes = 1 /\ connection = "freed"
        /\ pc = "done" /\ ret = 0 /\ event = "closed"

C2_Witness ==
    /\ request # None /\ ~Streaming /\ Len(replies) = 1
    /\ IsSuccess(replies[1]) /\ ~Continues(replies[1]) /\ Rendered = 1 /\ pc = "done"

\* C3: after a success reply the loop goes on only if the reply continues and
\* the call was made with --more; in every other case, a continuing reply on a
\* call without --more included, reply_callback closes the connection and
\* call_run ends with 0 (completed).
C3_LoopsOnlyIfContinuesAndStreaming ==
    (request # None /\ replies # <<>> /\ IsSuccess(LastReply)) =>
        \/ Continues(LastReply) /\ Streaming
        \/ LastReply.closed /\ pc = "done" /\ ret = 0 /\ event = "closed"

\* C4: a reply with an error name whose value is rendered is the last reply
\* dispatched, with or without --more and whether or not it continues: its error
\* line and its value are printed once, reply_callback records
\* CLI_ERROR_REMOTE_ERROR and closes the connection, and call_run ends.
C4_RemoteErrorEndsLoop ==
    \A i \in 1..Len(replies) :
        IsError(replies[i]) =>
            /\ i = Len(replies)
            /\ replies[i].closed
            /\ error = CLI_ERROR_REMOTE_ERROR
            /\ Rendered = Len(replies)
            /\ Len(output) >= 2
            /\ output[Len(output)].kind = "json"
            /\ output[Len(output) - 1].kind = "Call failed with error"
            /\ pc = "done" /\ event = "closed" /\ closes = 1 /\ connection = "freed"

C4_Witness ==
    /\ Streaming /\ Len(replies) >= 2
    /\ IsError(LastReply) /\ Continues(LastReply)
    /\ pc = "done" /\ error = CLI_ERROR_REMOTE_ERROR

\* C5: a reply whose value cannot be serialized ends the call as InvalidJson:
\* reply_callback closes the connection, nothing more is rendered, and call_run
\* returns the InvalidJson code, not 0.
C5_RenderFailureExitsInvalidJson ==
    (replies # <<>> /\ LastReply.fault) =>
        /\ LastReply.closed
        /\ error = CLI_ERROR_INVALID_JSON
        /\ Rendered = Len(replies) - 1
        /\ pc = "done"
        /\ ret = -CLI_ERROR_INVALID_JSON

\* C6: a cancellation signal while call_run awaits a reply, the first or a later
\* one, ends call_run with 0; nothing is printed for it and no reply is
\* dispatched or rendered afterwards.
C6_CancelEndsWithSuccess ==
    /\ [](event = "canceled" =>
            /\ pc = "done" /\ ret = 0
            /\ Rendered = Len(replies)
            /\ (output # <<>> => output[Len(output)].kind = "json"))
    /\ [][event = "canceled" => (output' = output /\ replies' = replies)]_vars

C6_Witness ==
    /\ event = "canceled" /\ Len(replies) >= 1 /\ Streaming /\ pc = "done" /\ ret = 0

\* C7: the peer closing the connection before a reply has ended the loop ends
\* call_run with -CLI_ERROR_CONNECTION_CLOSED, which is not 0, the value returned
\* after a remote error and after a cancellation.
C7_PeerCloseIsAnError ==
    /\ event = "peer-closed" =>
          /\ pc = "done"
          /\ \A i \in 1..Len(replies) : ~replies[i].closed
          /\ ret = -CLI_ERROR_CONNECTION_CLOSED
          /\ ret # 0
          /\ output[Len(output)] = Err("Connection closed")
    /\ (pc = "done" /\ (event = "canceled" \/ error = CLI_ERROR_REMOTE_ERROR)) =>
          ret = 0

C7_Witness ==
    /\ event = "peer-closed" /\ Len(replies) >= 1
    /\ pc = "done" /\ ret = -CLI_ERROR_CONNECTION_CLOSED

HelpRequested == \E i \in 1..Len(output) : output[i].kind = "usage"
Completed == event = "closed" /\ error = 0
RemoteErrorReported == event = "closed" /\ error = CLI_ERROR_REMOTE_ERROR
Canceled == event = "canceled"

\* C8: call_run returns 0 exactly when help was requested, the stream
\* completed, a remote error was reported or the user canceled; every other
\* way to end (an unrenderable reply among them) returns a non-zero status.
C8_ZeroExactlyOnSuccessKinds ==
    pc = "done" =>
        (ret = 0 <=> (HelpRequested \/ Completed \/ RemoteErrorReported \/ Canceled))

\* The argument-stage failures, read off the command line (and, for "-", off
\* what standard input delivered).
OptionCodes == getopt_long(argv, 1)
OnlyMore == \A k \in 1..Len(OptionCodes) : OptionCodes[k] = "m"
Ops == Operands(argv, 1)
TargetOk == OnlyMore /\ Ops # <<>> /\ varlink_uri_new(Ops[1]).r = 0
MethodOk == TargetOk /\ (Get(varlink_uri_new(Ops[1]).uri)).qualified_member # None
FromStdin == MethodOk /\ Len(Ops) >= 2 /\ Ops[2] = <<"-">>

MissingTarget == OnlyMore /\ Ops = <<>>
UnknownFlag ==
    \E k \in 1..Len(OptionCodes) :
        OptionCodes[k] = "?" /\ \A j \in 1..(k - 1) : OptionCodes[j] = "m"
MalformedTarget == OnlyMore /\ Ops # <<>> /\ varlink_uri_new(Ops[1]).r < 0
MissingMethod == TargetOk /\ ~MethodOk
BadLiteral ==
    /\ MethodOk /\ Len(Ops) >= 2 /\ Ops[2] # <<"-">>
    /\ varlink_object_new_from_json(Ops[2]).r < 0
BadStdin ==
    /\ FromStdin /\ pc \notin {"start", "read"}
    /\ varlink_object_new_from_json(CString(delivered)).r < 0

ArgumentReports ==
    {"Missing argument", "Invalid argument", "Missing method",
     "Unable to parse input parameters"}

NoNetworkIO == connects = 0 /\ calls = 0 /\ connection = "none" /\ request = None

\* C9: a missing target, an unknown flag, a malformed target, a target without
\* a method and undecodable parameters (literal or read from standard input)
\* each end call_run with their code (MissingArgument, InvalidArgument,
\* InvalidArgument, InvalidArgument, InvalidJson) and in none of these runs is
\* cli_connect or varlink_connection_call ever invoked; whenever one of the
\* argument reports was printed there has been no connect and no call.
C9_ArgumentFailuresBeforeNetwork ==
    /\ MissingTarget =>
          NoNetworkIO /\ (pc = "done" => ret = -CLI_ERROR_MISSING_ARGUMENT)
    /\ (UnknownFlag \/ MalformedTarget \/ MissingMethod) =>
          NoNetworkIO /\ (pc = "done" => ret = -CLI_ERROR_INVALID_ARGUMENT)
    /\ (BadLiteral \/ BadStdin) =>
          NoNetworkIO /\ (pc = "done" => ret = -CLI_ERROR_INVALID_JSON)
    /\ (MissingTarget \/ UnknownFlag \/ MalformedTarget \/ MissingMethod \/ BadLiteral) =>
          pc \in {"start", "done"}
    /\ (\E i \in 1..Len(output) : output[i].kind \in ArgumentReports) =>
          NoNetworkIO /\ pc = "done"

C9_Witness ==
    /\ BadStdin /\ delivered # <<>> /\ pc = "done"
    /\ ret = -CLI_ERROR_INVALID_JSON /\ connects = 0

\* standard input was read to its end, and what it delivered is a text (no NUL)
ReadToEnd ==
    /\ FromStdin /\ pc \notin {"start", "read"}
    /\ ~readFailed /\ stdin = {<<>>}
    /\ \A i \in 1..Len(delivered) : delivered[i] # NUL

\* C10: with the parameter token "-", once standard input has been read to its
\* end, in whatever chunks, the program holds what the literal token would give:
\* the same parameter text, the same decoded parameters, the same parameters in
\* the call it issues, and the same InvalidJson failure when the text does not
\* decode.
C10_StdinEqualsLiteral ==
    ReadToEnd =>
        LET literal == varlink_object_new_from_json(delivered)
        IN  IF literal.r < 0
            THEN pc = "done" /\ ret = -CLI_ERROR_INVALID_JSON /\ request = None
            ELSE /\ pc \in {"connect", "call", "events"} =>
                      /\ parameters = literal.object
                      /\ (Get(arguments)).parameters = Some(delivered)
                 /\ request # None => (Get(request)).parameters = literal.object
                 /\ pc = "done" => ret # -CLI_ERROR_INVALID_JSON

C10_Witness ==
    /\ ReadToEnd /\ Len(delivered) > MinBufferSize /\ buffer_size > MinBufferSize
    /\ request # None /\ (Get(request)).parameters = Some({<<<<"a">>, 1>>})

\* -h or --help is the first option that is not -m or --more
HelpOptionFirst ==
    \E k \in 1..Len(OptionCodes) :
        OptionCodes[k] = "h" /\ \A j \in 1..(k - 1) : OptionCodes[j] = "m"

\* C12: when the option scan of the call command meets -h or --help, it stops
\* there (a later unknown option is not reported), no target is parsed, standard
\* input is not read, nothing connects and no call is made; call_run prints the
\* usage text and returns 0, whether the target is present, missing or
\* malformed.
C12_HelpShortCircuits ==
    HelpOptionFirst =>
        /\ pc \in {"start", "done"}
        /\ call_arguments_new(argv).r = 0
        /\ (Get(call_arguments_new(argv).arguments)).uri = None
        /\ (Get(call_arguments_new(argv).arguments)).parameters = None
        /\ NoNetworkIO
        /\ delivered = <<>> /\ stdin = ShortStdinTexts /\ buffer_size = 0
        /\ parameters = None
        /\ pc = "done" => (ret = 0 /\ output = <<Out("usage", <<>>)>>)

C12_Witness ==
    /\ HelpOptionFirst /\ pc = "done" /\ ret = 0
    /\ \E k \in 1..Len(OptionCodes) : OptionCodes[k] = "?"
    /\ Ops # <<>> /\ varlink_uri_new(Ops[1]).r < 0

\* the word being completed starts with '-'
OptionWord == current # <<>> /\ current[1] = "-"

\* the command line gives call_complete no arguments, no target or no method
NoMethodYet ==
    HelpOptionFirst \/ UnknownFlag \/ MissingTarget \/ MalformedTarget \/ MissingMethod

\* C13: call_complete goes on after MissingArgument and InvalidArgument from
\* the argument parser and chooses in this order: the options when the word
\* starts with '-'; else the methods when there are no arguments, no target or
\* no qualified member; else the placeholder '{}' when there is no parameter
\* token; else nothing.  On the last two paths it returns 0 and nothing
\* connects or calls.
C13_CompletionOrder ==
    pc = "done" =>
        IF OptionWord
        THEN output = <<Out("cli_complete_options", current)>>
        ELSE IF NoMethodYet
        THEN output = <<Out("cli_complete_methods", current)>>
        ELSE IF Len(Ops) < 2
        THEN output = <<Out("cli_print_completion", Placeholder)>> /\ ret = 0 /\ NoNetworkIO
        ELSE output = <<>> /\ ret = 0 /\ NoNetworkIO

C13_Witness ==
    /\ pc = "done" /\ ~OptionWord /\ MethodOk /\ Len(Ops) = 1
    /\ output = <<Out("cli_print_completion", Placeholder)>> /\ ret = 0

\* C14: once cli_connect has succeeded the connection is closed exactly once
\* by the time call_run has returned, whichever way it ends (completed, remote
\* error, render failure, cancellation, peer close, failure to send the call,
\* failure of the event loop): it is not closed before, not left open, and not
\* closed both by reply_callback and by the release at scope exit.
C14_ClosedExactlyOnce ==
    /\ closes <= 1
    /\ connection = "none" => closes = 0
    /\ connection = "open" => (closes = 0 /\ pc \in {"call", "events"})
    /\ (pc = "done" /\ connection # "none") => (connection = "freed" /\ closes = 1)
    /\ (pc = "done" /\ (calls > 0 \/ event # "none")) => closes = 1

C14_Witness ==
    /\ pc = "done" /\ closes = 1 /\ connection = "freed"
    /\ replies # <<>> /\ LastReply.closed /\ LastReply.fault

\* a read() of standard input has been issued
StdinRead == \E t \in stdin : stdin = {t}

\* C15: standard input is read only when the parameter token is exactly "-"
\* and the target before it is present, well-formed and has a method; every
\* read is issued before cli_connect and before the call, and from the connect
\* on, the reply loop included, standard input is not read again.
C15_StdinReadOnlyBeforeConnect ==
    /\ []((pc = "read" \/ StdinRead \/ delivered # <<>>) => FromStdin)
    /\ [](pc = "read" => (NoNetworkIO /\ replies = <<>>))
    /\ [][<<stdin, delivered>>' # <<stdin, delivered>> =>
             (pc = "read" /\ connects = 0 /\ calls = 0 /\ replies = <<>>)]_vars
    /\ [][(pc \in {"connect", "call", "events", "done"}) =>
             <<stdin, delivered>>' = <<stdin, delivered>>]_vars

C15_Witness ==
    /\ FromStdin /\ StdinRead /\ delivered # <<>>
    /\ pc = "events" /\ replies # <<>> /\ connects = 1 /\ calls = 1

\* the replies that carried an error name, and the error lines printed
ErrorReplies == {i \in 1..Len(replies) : replies[i].reply.error # None}
ErrorLines == {k \in 1..Len(output) : output[k].kind = "Call failed with error"}

\* C16: for a reply with an error name reply_callback prints the error line
\* first and then still renders the reply's value: every error line is
\* directly followed by the rendered value (or, when the value cannot be
\* serialized, by the report of that), no error line stands behind the value
\* of its reply, and there is one error line per error reply.
C16_ErrorLineThenValue ==
    /\ Cardinality(ErrorLines) = Cardinality(ErrorReplies)
    /\ \A k \in ErrorLines :
         /\ k < Len(output)
         /\ output[k + 1].kind \in {"json", "Unable to read message"}
    /\ \A i \in ErrorReplies :
         (i = Len(replies) /\ ~replies[i].fault) =>
             /\ Len(output) >= 2
             /\ output[Len(output) - 1] = Err("Call failed with error")
             /\ output[Len(output)] =
                    Out("json", varlink_object_to_pretty_json(replies[i].reply.parameters,
                                                              FALSE).json)
             /\ Rendered = Len(replies)

C16_Witness ==
    /\ Len(replies) >= 2 /\ Len(replies) \in ErrorReplies /\ ~LastReply.fault
    /\ Len(output) = Len(replies) + 1
    /\ output[Len(output) - 1].kind = "Call failed with error"
    /\ output[Len(output)].kind = "json"

\* what cli_process_all_events returned to call_run
EventsResult == cli_process_all_events(event)

\* C19: once the call has been sent, call_run's return value is decided by
\* what cli_process_all_events returned and by nothing else: 0 when that is
\* >= 0 or -CLI_ERROR_CANCELED, that value otherwise.  What reply_callback
\* stored in error (nothing, CLI_ERROR_REMOTE_ERROR, CLI_ERROR_INVALID_JSON)
\* does not change it.
C19_StatusFromEventsResultAlone ==
    (pc = "done" /\ request # None) =>
        /\ event # "none"
        /\ ret = IF EventsResult >= 0 \/ EventsResult = -CLI_ERROR_CANCELED
                 THEN 0 ELSE EventsResult
        /\ error \in {0, CLI_ERROR_REMOTE_ERROR, CLI_ERROR_INVALID_JSON}

C19_Witness ==
    /\ pc = "done" /\ request # None /\ event = "closed"
    /\ error = CLI_ERROR_INVALID_JSON /\ ret = 0

\* n is 1024 * 2^k for some k
RECURSIVE IsDoubling(_)
IsDoubling(n) ==
    IF n <= MinBufferSize THEN n = MinBufferSize
    ELSE n % 2 = 0 /\ IsDoubling(n \div 2)

\* C20: in the loop that reads standard input, whatever read() returns each
\* time, size never exceeds buffer_size; every read() is issued with at least
\* one free byte behind the bytes read so far; buffer_size, once the loop has
\* allocated, is 1024 * 2^k; and when the loop ends size is less than
\* buffer_size, so the NUL stored at buffer[size] lies inside the buffer.
C20_ReadLoopStaysInBuffer ==
    /\ [](size <= buffer_size)
    /\ [](buffer_size = 0 => (size = 0 /\ ~StdinRead))
    /\ [](buffer_size # 0 => IsDoubling(buffer_size))
    /\ [](pc \in {"read", "connect"} => Len(buffer) = buffer_size)
    /\ [][pc = "read" => (buffer_size' - size >= 1 /\ size' <= buffer_size')]_vars
    /\ [][(pc = "read" /\ pc' # "read") => size' < buffer_size']_vars
    /\ []((FromStdin /\ pc = "connect") => (size < Len(buffer) /\ buffer[size + 1] = NUL))

C20_Witness ==
    /\ FromStdin /\ pc = "connect"
    /\ size = 2 * MinBufferSize /\ buffer_size = 4 * MinBufferSize
    /\ buffer[size + 1] = NUL

----------------------------------------------------------------------------
(* Properties of the help command *)

\* cli_wait_reply handed help_interface an error reply
HelpRemoteError == waited # None /\ (Get(waited)).r = 0 /\ (Get(waited)).error # None

\* the interface descriptions printed
InterfacesRendered == {i \in 1..Len(output) : output[i].kind = "interface"}

\* C11: when the introspection call is answered with a remote error,
\* help_interface prints the error and returns 0 and help_run returns
\* EXIT_SUCCESS; the description the reply may carry is neither decoded (no
\* CallFailed, no Panic) nor rendered.
C11_HelpRemoteErrorIsSuccess ==
    HelpRemoteError =>
        /\ pc = "done"
        /\ described = Some(0)
        /\ ret = EXIT_SUCCESS
        /\ output = <<Out("Error", Get((Get(waited)).error))>>
        /\ InterfacesRendered = {}

C11_Witness ==
    /\ HelpRemoteError
    /\ (Get(waited)).reply = Some({<<"description", [string |-> MethodTokens("M")]>>})
    /\ pc = "done" /\ ret = EXIT_SUCCESS /\ Len(output) = 1

\* the target of the help command and what it splits into
HelpTarget == cli_split_address(Operands(argv, 1)[1])
HelpTargetOk == help_getopt(argv, 1) = "end" /\ Operands(argv, 1) # <<>>

ResolveFailed == \E i \in 1..Len(output) : output[i].kind = "Error resolving interface"
ConnectFailed == \E i \in 1..Len(output) : output[i].kind = "Error connecting"

\* C17: help_run calls cli_resolve only for a target without an address; when
\* the resolution fails it returns CLI_ERROR_CANNOT_RESOLVE and has not tried
\* to connect; when cli_connect fails it returns CLI_ERROR_CANNOT_CONNECT and
\* has issued no introspection call; otherwise it issues exactly one call, of
\* org.varlink.service.GetInterfaceDescription, without the more flag and with
\* the interface name as the only parameter.
C17_ResolveConnectDescribe ==
    /\ resolves <= 1 /\ connects <= 1 /\ Len(cli_calls) <= 1
    /\ (resolves > 0 \/ pc = "resolve") => (HelpTargetOk /\ HelpTarget.address = None)
    /\ (connects > 0 /\ HelpTarget.address # None) =>
          (resolves = 0 /\ address = HelpTarget.address)
    /\ (connects > 0 /\ HelpTarget.address = None) => (resolves = 1 /\ address # None)
    /\ ResolveFailed =>
          /\ pc = "done" /\ ret = CLI_ERROR_CANNOT_RESOLVE
          /\ connects = 0 /\ cli_calls = <<>>
    /\ ConnectFailed =>
          /\ pc = "done" /\ ret = CLI_ERROR_CANNOT_CONNECT /\ ret # CLI_ERROR_CANNOT_RESOLVE
          /\ connects = 1 /\ cli_calls = <<>>
    /\ (connects = 1 /\ ~ConnectFailed /\ pc # "help-call") =>
          cli_calls = << [method |-> GetInterfaceDescription,
                          parameters |-> {<<"interface", [string |-> HelpTarget.interface]>>},
                          flags |-> {}] >>
    /\ cli_calls # <<>> => (connects = 1 /\ ~ConnectFailed /\ ~ResolveFailed)

C17_Witness ==
    /\ HelpTargetOk /\ HelpTarget.address = None /\ resolves = 1 /\ connects = 1
    /\ Len(cli_calls) = 1 /\ waited # None /\ pc = "done"

\* cli_wait_reply handed help_interface a reply whose description is a string
\* that varlink_interface_new rejects
DescriptionUnparsable ==
    /\ waited # None /\ (Get(waited)).r = 0 /\ (Get(waited)).error = None
    /\ LET d == varlink_object_get_string(Get((Get(waited)).reply), "description")
       IN  d.r = 0 /\ varlink_interface_new(d.string).r < 0

\* cli_wait_reply handed help_interface a reply without a description string
DescriptionMissing ==
    /\ waited # None /\ (Get(waited)).r = 0 /\ (Get(waited)).error = None
    /\ varlink_object_get_string(Get((Get(waited)).reply), "description").r < 0

\* C18: when the description the service returned does not parse,
\* help_interface returns -CLI_ERROR_PANIC, which is not the
\* -CLI_ERROR_CALL_FAILED it returns for a reply without a description string;
\* nothing is printed and help_run returns EXIT_FAILURE, which is not 0.
C18_UnparsableDescriptionIsPanic ==
    /\ DescriptionUnparsable =>
          /\ described = Some(-CLI_ERROR_PANIC)
          /\ described # Some(-CLI_ERROR_CALL_FAILED)
          /\ output = <<>>
          /\ pc = "done" /\ ret = EXIT_FAILURE /\ ret # 0
    /\ DescriptionMissing =>
          /\ described = Some(-CLI_ERROR_CALL_FAILED)
          /\ output = <<>>
          /\ pc = "done" /\ ret = EXIT_FAILURE

C18_Witness ==
    /\ DescriptionUnparsable
    /\ (Get(waited)).reply =
           Some({<<"description", [string |-> <<"interface", "i", "method", "M", "(">>]>>})
    /\ described = Some(-CLI_ERROR_PANIC) /\ ret = EXIT_FAILURE

====
